---- MODULE Spec2Model ----
(***************************************************************************)
(* A model of sappy's Client and Client.Session (src/sappy/client.py).     *)
(*                                                                         *)
(* Strings that the code inspects character by character (widget Ids,     *)
(* search fragments, whitespace-separated field lists) are sequences of    *)
(* one-character strings.  An operation's result is a record:              *)
(*   [kind |-> "return", value |-> v]   or                                 *)
(*   [kind |-> "raise", exc |-> class, msg |-> message, ...].              *)
(* Every call into the SAP GUI scripting objects is appended to `calls`.   *)
(***************************************************************************)
EXTENDS Integers, Sequences, FiniteSets, TLC

VARIABLES
    tree,       \* what ses.GetObjectTree('') yields: [props, children] by node, node 1 the root
    text,       \* the text of each live widget, by Id
    readonly,   \* the widget Ids whose text cannot be set
    table,      \* the attributes of the widget that findById hands to get_table
    okcd,       \* the text of the command field wnd[0]/tbar[0]/okcd
    openTxn,    \* the transaction open in the session, or "none"
    alive,      \* whether the session's window still exists
    history,    \* the calls completed so far on this Session: [req, outcome]
    local,      \* the locals of the operation in progress
    connections,\* application.Children: the open connections, [Description, Children]
    connection, \* self.connection: 0 for None, else its place in `connections`
    pending,    \* the connections asked for a session the application has yet to create
    now,        \* the wall clock, in seconds
    process,    \* the SAP Logon process subprocess.Popen started: "none" or "running"
    application,\* self.application: "None", or "engine" once the scripting engine is attached
    pc,         \* position of the running operation ("idle", "done", or a step name)
    req,        \* the operation called and its arguments
    outcome,    \* what the operation returned or raised
    calls       \* the external calls made by the running operation, in order

locatorVars == <<tree, text, readonly, table>>
txnVars == <<okcd, openTxn, alive, history>>

engineVars == <<process, application>>
clientVars == <<connections, connection, pending, now, process, application>>

vars == <<tree, text, readonly, table, okcd, openTxn, alive, history, local,
          connections, connection, pending, now, process, application,
          pc, req, outcome, calls>>

----------------------------------------------------------------------------
(* Bounds and input pools *)

MaxNodes == 3
MaxFragLen == 2

Chars == {"a", "b"}

\* The sequences over S of length at most n.
RECURSIVE SeqsUpTo(_, _)
SeqsUpTo(S, n) ==
    IF n = 0 THEN {<<>>}
    ELSE LET shorter == SeqsUpTo(S, n - 1)
         IN  shorter \cup {Append(s, c) : s \in {t \in shorter : Len(t) = n - 1}, c \in S}

Fragments == SeqsUpTo(Chars, MaxFragLen)

IdPool == {<<"a">>, <<"b">>, <<"b", "a", "b">>}

\* A node of the JSON tree without a 'properties' object (or without 'Id' in it).
NoProps == [hasId |-> FALSE, Id |-> <<>>]
NodeProps == {NoProps} \cup {[hasId |-> TRUE, Id |-> i] : i \in IdPool}

\* The ordered trees of n nodes: node k > 1 hangs under an earlier node, and a
\* node's 'children' list holds its children in that order.
ParentVectors(n) == {p \in [1..n -> 0..(n - 1)] : p[1] = 0 /\ \A k \in 2..n : p[k] \in 1..(k - 1)}

RECURSIVE SortedSeq(_)
SortedSeq(S) ==
    IF S = {} THEN <<>>
    ELSE LET m == CHOOSE x \in S : \A y \in S : x <= y
         IN  <<m>> \o SortedSeq(S \ {m})

ChildLists(n, p) == [k \in 1..n |-> SortedSeq({c \in 1..n : p[c] = k})]

TreesOfSize(n) ==
    {[props |-> l, children |-> ChildLists(n, p)] : l \in [1..n -> NodeProps], p \in ParentVectors(n)}

Trees(maxn) == UNION {TreesOfSize(n) : n \in 1..maxn}

Nodes(t) == DOMAIN t.props

----------------------------------------------------------------------------
(* Results *)

NoOutcome == [kind |-> "none"]
Return(v) == [kind |-> "return", value |-> v]
Raise(e, m) == [kind |-> "raise", exc |-> e, msg |-> m]

Returned(o) == o.kind = "return"
Raised(o) == o.kind = "raise"

----------------------------------------------------------------------------
(* Client.Session.find_elements *)

\* Python's `f in s` on strings.
Contains(f, s) == \E i \in 0..(Len(s) - Len(f)) : SubSeq(s, i + 1, i + Len(f)) = f

\* tree.get('properties',{}).get('Id','')
IdOrDefault(t, n) == IF t.props[n].hasId THEN t.props[n].Id ELSE <<>>

\* search_tree: the Ids collected below node n, or KeyError when a node that
\* matches has no properties.Id to append (tree['properties']['Id']).
RECURSIVE search_tree(_, _, _)
RECURSIVE search_children(_, _, _, _)
search_tree(t, idn, n) ==
    IF Contains(idn, IdOrDefault(t, n)) /\ ~t.props[n].hasId
    THEN Raise("KeyError", "properties")
    ELSE LET own == IF Contains(idn, IdOrDefault(t, n)) THEN <<t.props[n].Id>> ELSE <<>>
         IN  search_children(t, idn, t.children[n], own)

search_children(t, idn, kids, result) ==
    IF kids = <<>> THEN Return(result)
    ELSE LET sub == search_tree(t, idn, Head(kids))
         IN  IF Raised(sub) THEN sub
             ELSE search_children(t, idn, Tail(kids), result \o sub.value)

\* Widget paths, a segment taken as one symbol: wnd[0]/usr/a is
\* <<"wnd[0]/", "usr/", "a">>.
Wnd0 == "wnd[0]/"
Wnd1 == "wnd[1]/"
Usr == "usr/"
Tbar == "tbar[0]/"
WindowSegments == {Wnd0, Wnd1}

HasWindowSegment(f) == f # <<>> /\ Head(f) \in WindowSegments
HasUserAreaSegment(f) == Contains(<<Usr>>, f)

\* The fragment with the defaults wnd[0] and usr put in front where it has no
\* window segment, and usr where it has neither.
Normalized(f) ==
    IF HasWindowSegment(f) THEN f
    ELSE IF HasUserAreaSegment(f) THEN <<Wnd0>> \o f
    ELSE <<Wnd0, Usr>> \o f

\* find_elements searching for the fragment with the defaults put in front.
find_elements_normalized(t, idn) == search_tree(t, Normalized(idn), 1)

find_elements(t, idn) == search_tree(t, idn, 1)

----------------------------------------------------------------------------
(* External calls on the session's scripting objects *)

CallGetObjectTree == [op |-> "GetObjectTree"]
CallFindById(id) == [op |-> "findById", id |-> id]
CallSetText(id, v) == [op |-> "set_text", id |-> id, value |-> v]

LiveIds == DOMAIN text

\* ses.findById(id): the widget handle, or a COM error when no such widget is live.
findById(id) ==
    IF id \in LiveIds THEN Return([widget |-> id]) ELSE Raise("com_error", "findById")

----------------------------------------------------------------------------
(* Client.Session.find_element: [out |-> result, calls |-> external calls made] *)

\* find_element without the uniqueness test: the first match is always taken.
find_element_first_always(t, idn, first_element) ==
    LET elements == find_elements(t, idn)
    IN  IF Raised(elements)
        THEN [out |-> elements, calls |-> <<CallGetObjectTree>>]
        ELSE IF elements.value = <<>>
        THEN [out |-> Raise("ValueError", "No element found with Id"),
              calls |-> <<CallGetObjectTree>>]
        ELSE [out |-> findById(elements.value[1]),
              calls |-> <<CallGetObjectTree, CallFindById(elements.value[1])>>]

find_element(t, idn, first_element) ==
    LET elements == find_elements(t, idn)
    IN  IF Raised(elements)
        THEN [out |-> elements, calls |-> <<CallGetObjectTree>>]
        ELSE IF elements.value = <<>>
        THEN [out |-> Raise("ValueError", "No element found with Id"),
              calls |-> <<CallGetObjectTree>>]
        ELSE IF Len(elements.value) > 1 /\ ~first_element
        THEN [out |-> Raise("ValueError", "More than one element found with Id"),
              calls |-> <<CallGetObjectTree>>]
        ELSE [out |-> findById(elements.value[1]),
              calls |-> <<CallGetObjectTree, CallFindById(elements.value[1])>>]

----------------------------------------------------------------------------
(* The locator's specification: one call of find_elements or find_element  *)
(* on a session showing any tree of at most MaxNodes nodes.                *)

NoReq == [op |-> "none"]
NoLocal == [phase |-> "none"]

\* The state Client.__init__ leaves when it returns.
Attached ==
    /\ process = "running"
    /\ application = "engine"

\* A client that holds no connection, for the specifications of one Session.
ClientAtRest ==
    /\ Attached
    /\ connections = <<>>
    /\ connection = 0
    /\ pending = {}
    /\ now = 0

\* A session at the main menu, for the specifications that do not drive
\* transactions.
SessionAtRest ==
    /\ okcd = ""
    /\ openTxn = "none"
    /\ alive = TRUE
    /\ history = <<>>
    /\ local = NoLocal
    /\ ClientAtRest
NoTable == [Type |-> "GuiTextField"]

InitFind ==
    /\ tree \in Trees(MaxNodes)
    /\ text = [i \in IdPool |-> <<>>]
    /\ readonly = {}
    /\ table = NoTable
    /\ SessionAtRest
    /\ pc = "idle"
    /\ req = NoReq
    /\ outcome = NoOutcome
    /\ calls = <<>>

FindElements(idn) ==
    /\ pc = "idle"
    /\ pc' = "done"
    /\ req' = [op |-> "find_elements", idn |-> idn]
    /\ outcome' = find_elements(tree, idn)
    /\ calls' = <<CallGetObjectTree>>
    /\ UNCHANGED <<tree, text, readonly, table, local>>
    /\ UNCHANGED <<txnVars, clientVars>>

FindElement(idn, first_element) ==
    /\ pc = "idle"
    /\ pc' = "done"
    /\ req' = [op |-> "find_element", idn |-> idn, first_element |-> first_element]
    /\ LET r == find_element(tree, idn, first_element)
       IN  outcome' = r.out /\ calls' = r.calls
    /\ UNCHANGED <<tree, text, readonly, table, local>>
    /\ UNCHANGED <<txnVars, clientVars>>

CallFindElements == \E idn \in Fragments : FindElements(idn)
CallFindElement == \E idn \in Fragments, first \in BOOLEAN : FindElement(idn, first)

NextFind ==
    \/ CallFindElements
    \/ CallFindElement

SpecFind == InitFind /\ [][NextFind]_vars

----------------------------------------------------------------------------
(* What the locator is specified to return *)

\* The nodes of t whose Id contains the fragment.
Matching(t, f) == {n \in Nodes(t) : t.props[n].hasId /\ Contains(f, t.props[n].Id)}

ParentOf(t, n) == CHOOSE p \in Nodes(t) : \E i \in DOMAIN t.children[p] : t.children[p][i] = n
PositionIn(kids, n) == CHOOSE i \in DOMAIN kids : kids[i] = n

\* The positions, in the successive 'children' lists, that lead from the root to n.
RECURSIVE PathTo(_, _)
PathTo(t, n) ==
    IF n = 1 THEN <<>>
    ELSE LET p == ParentOf(t, n) IN Append(PathTo(t, p), PositionIn(t.children[p], n))

\* m comes before n depth-first: m is an ancestor of n, or where their paths
\* part m lies under the earlier child.
Before(t, m, n) ==
    LET pm == PathTo(t, m)
        pn == PathTo(t, n)
    IN  \/ Len(pm) < Len(pn) /\ SubSeq(pn, 1, Len(pm)) = pm
        \/ \E i \in 1..Len(pm) :
              /\ i <= Len(pn)
              /\ SubSeq(pm, 1, i - 1) = SubSeq(pn, 1, i - 1)
              /\ pm[i] < pn[i]

\* v lists the Id of every matching node once, in depth-first order.
IsDepthFirstListing(t, f, v) ==
    LET M == Matching(t, f)
    IN  /\ Len(v) = Cardinality(M)
        /\ \A n \in M : v[1 + Cardinality({m \in M : Before(t, m, n)})] = t.props[n].Id

FindElementsDone == pc = "done" /\ req.op = "find_elements"
FindElementDone == pc = "done" /\ req.op = "find_element"

\* C1: for every fragment and every tree, find_elements returns exactly the Ids of
\* the nodes whose Id contains the fragment, one entry per matching node, in
\* depth-first order (parent before children, children in list order).
C1_FindElementsReturnsMatches ==
    FindElementsDone =>
        /\ Returned(outcome)
        /\ IsDepthFirstListing(tree, req.idn, outcome.value)

\* What the code does instead: it raises KeyError exactly when the fragment is
\* empty and some node has no properties.Id, and returns the listing otherwise.
FindElementsBehaviour ==
    FindElementsDone =>
        IF req.idn = <<>> /\ \E n \in Nodes(tree) : ~tree.props[n].hasId
        THEN outcome = Raise("KeyError", "properties")
        ELSE Returned(outcome) /\ IsDepthFirstListing(tree, req.idn, outcome.value)

NotFound == Raise("ValueError", "No element found with Id")
AmbiguousMatch == Raise("ValueError", "More than one element found with Id")

NoWidgetResolved == \A i \in DOMAIN calls : calls[i].op # "findById"

\* C2: find_element fails with NotFound when find_elements yields no match, and
\* with AmbiguousMatch when it yields two or more and first_element is false; in
\* both cases no widget is resolved or returned.
C2_FindElementFailures ==
    FindElementDone =>
        LET elements == find_elements(tree, req.idn)
        IN  /\ (Returned(elements) /\ elements.value = <<>>) =>
                   outcome = NotFound /\ NoWidgetResolved
            /\ (Returned(elements) /\ Len(elements.value) >= 2 /\ ~req.first_element) =>
                   outcome = AmbiguousMatch /\ NoWidgetResolved

C2_Witness ==
    /\ FindElementDone
    /\ ~req.first_element
    /\ Cardinality(Matching(tree, req.idn)) >= 2
    /\ outcome = AmbiguousMatch

----------------------------------------------------------------------------
(* The locator on full widget paths: one call of find_elements or           *)
(* find_element with a fragment that names all, some or none of the leading *)
(* segments.                                                               *)

PathIds == {<<Wnd0, Usr, "a">>, <<Wnd0, Tbar, "a">>, <<Wnd1, Usr, "a">>}

PathProps == {NoProps} \cup {[hasId |-> TRUE, Id |-> i] : i \in PathIds}

PathTrees ==
    UNION {{[props |-> l, children |-> ChildLists(n, p)] :
                l \in [1..n -> PathProps], p \in ParentVectors(n)} : n \in 1..MaxNodes}

PathFragments ==
    {<<>>, <<"a">>, <<Usr, "a">>, <<Tbar, "a">>, <<Wnd0, Usr, "a">>, <<Wnd1, Usr, "a">>}

InitPath ==
    /\ tree \in PathTrees
    /\ text = [i \in PathIds |-> <<>>]
    /\ readonly = {}
    /\ table = NoTable
    /\ SessionAtRest
    /\ pc = "idle"
    /\ req = NoReq
    /\ outcome = NoOutcome
    /\ calls = <<>>

NextPath ==
    \/ \E idn \in PathFragments : FindElements(idn)
    \/ \E idn \in PathFragments, first \in BOOLEAN : FindElement(idn, first)

SpecPath == InitPath /\ [][NextPath]_vars

\* The fragment leaves out the window segment or the user-area segment.
OmitsSegment(f) == ~HasWindowSegment(f) \/ ~HasUserAreaSegment(f)

\* C14 as the spec has it: for a fragment without the window segment or the
\* user-area segment, the Ids found are those that contain the fragment with
\* wnd[0] and usr put in front.
C14_MatchesNormalizedFragment ==
    (FindElementsDone /\ OmitsSegment(req.idn) /\ Returned(outcome)) =>
        IsDepthFirstListing(tree, Normalized(req.idn), outcome.value)

FoundWidgets == {calls[i].id : i \in {j \in DOMAIN calls : calls[j].op = "findById"}}

\* C14: for a fragment without the window segment or the user-area segment the
\* locator puts nothing in front: find_elements lists the Ids that contain the
\* fragment as the caller gave it, those of other windows and of other areas
\* included (or raises KeyError, for the empty fragment on a tree with a node
\* that has no Id), and find_element resolves such an Id.
C14_MatchesFragmentAsGiven ==
    /\ (FindElementsDone /\ OmitsSegment(req.idn)) =>
           IF req.idn = <<>> /\ \E n \in Nodes(tree) : ~tree.props[n].hasId
           THEN outcome = Raise("KeyError", "properties")
           ELSE Returned(outcome) /\ IsDepthFirstListing(tree, req.idn, outcome.value)
    /\ (FindElementDone /\ OmitsSegment(req.idn)) =>
           /\ \A id \in FoundWidgets : Contains(req.idn, id)
           /\ (Cardinality(Matching(tree, req.idn)) = 1 /\ req.idn # <<>>) =>
                  /\ Returned(outcome)
                  /\ FoundWidgets = {tree.props[n].Id : n \in Matching(tree, req.idn)}

\* The fragment "a" finds wnd[1]/usr/a and wnd[0]/tbar[0]/a, neither of which
\* contains wnd[0]/usr/a.
C14_Witness ==
    /\ FindElementsDone
    /\ req.idn = <<"a">>
    /\ outcome = Return(<<<<Wnd1, Usr, "a">>, <<Wnd0, Tbar, "a">>>>)

----------------------------------------------------------------------------
(* Client.Session.update_field *)

MaxStrLen == 3
MaxListLen == 2

Whitespace == {" "}

\* str.split(): the maximal runs of non-whitespace characters, in order.
RECURSIVE split_from(_, _, _)
split_from(s, word, words) ==
    IF s = <<>> THEN (IF word = <<>> THEN words ELSE Append(words, word))
    ELSE IF Head(s) \in Whitespace
    THEN split_from(Tail(s), <<>>, IF word = <<>> THEN words ELSE Append(words, word))
    ELSE split_from(Tail(s), Append(word, Head(s)), words)

split(s) == split_from(s, <<>>, <<>>)

\* An argument is a str or a list: [kind |-> "str", s |-> chars] or
\* [kind |-> "list", items |-> strings].
StrArg(s) == [kind |-> "str", s |-> s]
ListArg(l) == [kind |-> "list", items |-> l]

\* if isinstance(x, str): x = x.split()
as_list(arg) == IF arg.kind = "str" THEN split(arg.s) ELSE arg.items

\* The loop going on to the next pair when one fails, the last failure raised
\* in the end.
RECURSIVE update_pairs_carry_on(_, _, _, _, _)
update_pairs_carry_on(t, idn, value, k, st) ==
    IF k > Len(idn) \/ k > Len(value)
    THEN [out |-> IF "failed" \in DOMAIN st THEN st.failed ELSE Return("None"),
          text |-> st.text, calls |-> st.calls]
    ELSE LET found == find_element(t, idn[k], FALSE)
         IN  IF Raised(found.out)
             THEN update_pairs_carry_on(t, idn, value, k + 1,
                      [text |-> st.text, calls |-> st.calls \o found.calls,
                       failed |-> found.out])
             ELSE LET id == found.out.value.widget
                      made == (st.calls \o found.calls) \o <<CallSetText(id, value[k])>>
                  IN  IF id \in readonly
                      THEN update_pairs_carry_on(t, idn, value, k + 1,
                               [text |-> st.text, calls |-> made,
                                failed |-> Raise("com_error", "text")])
                      ELSE update_pairs_carry_on(t, idn, value, k + 1,
                               [st EXCEPT !.text = [st.text EXCEPT ![id] = value[k]],
                                          !.calls = made])

\* self.find_element(f).text = v for the pairs from k on, in order; st carries
\* the widget texts and the external calls so far.
RECURSIVE update_pairs(_, _, _, _, _)
update_pairs(t, idn, value, k, st) ==
    IF k > Len(idn) \/ k > Len(value)
    THEN [out |-> Return("None"), text |-> st.text, calls |-> st.calls]
    ELSE LET found == find_element(t, idn[k], FALSE)
         IN  IF Raised(found.out)
             THEN [out |-> found.out, text |-> st.text, calls |-> st.calls \o found.calls]
             ELSE LET id == found.out.value.widget
                      made == (st.calls \o found.calls) \o <<CallSetText(id, value[k])>>
                  IN  IF id \in readonly
                      THEN [out |-> Raise("com_error", "text"), text |-> st.text, calls |-> made]
                      ELSE update_pairs(t, idn, value, k + 1,
                               [text |-> [st.text EXCEPT ![id] = value[k]], calls |-> made])

ArityMismatch == Raise("ValueError", "Provide the same number of fields and values!")

\* update_field that pairs up what it can instead of comparing the lengths.
update_field_unchecked(t, idn_arg, value_arg) ==
    update_pairs(t, as_list(idn_arg), as_list(value_arg), 1, [text |-> text, calls |-> <<>>])

update_field(t, idn_arg, value_arg) ==
    LET idn == as_list(idn_arg)
        value == as_list(value_arg)
    IN  IF Len(idn) # Len(value)
        THEN [out |-> ArityMismatch, text |-> text, calls |-> <<>>]
        ELSE update_pairs(t, idn, value, 1, [text |-> text, calls |-> <<>>])

UpdateField(idn_arg, value_arg) ==
    /\ pc = "idle"
    /\ pc' = "done"
    /\ req' = [op |-> "update_field", idn |-> idn_arg, value |-> value_arg]
    /\ LET r == update_field(tree, idn_arg, value_arg)
       IN  outcome' = r.out /\ text' = r.text /\ calls' = r.calls
    /\ UNCHANGED <<tree, readonly, table, local>>
    /\ UNCHANGED <<txnVars, clientVars>>

\* The sessions the field updater is run on: a root without properties over
\* two widgets of different Ids.
UpdateTrees ==
    {t \in TreesOfSize(3) : /\ ~t.props[1].hasId /\ t.props[2].hasId /\ t.props[3].hasId
                            /\ t.props[2].Id # t.props[3].Id
                            /\ t.children[1] = <<2, 3>>}

IdentArgs ==
    {StrArg(s) : s \in SeqsUpTo(Chars \cup Whitespace, MaxStrLen)}
        \cup {ListArg(l) : l \in SeqsUpTo({<<"a">>, <<"b">>}, MaxListLen)}

ValueArgs ==
    {StrArg(s) : s \in SeqsUpTo({"x"} \cup Whitespace, MaxStrLen)}
        \cup {ListArg(l) : l \in SeqsUpTo({<<"x">>, <<"y">>}, MaxListLen)}

InitialText == [i \in IdPool |-> <<>>]

InitUpdate ==
    /\ tree \in UpdateTrees
    /\ text = InitialText
    /\ readonly \in {{}, {<<"b">>}}
    /\ table = NoTable
    /\ SessionAtRest
    /\ pc = "idle"
    /\ req = NoReq
    /\ outcome = NoOutcome
    /\ calls = <<>>

CallUpdateField == \E i \in IdentArgs, v \in ValueArgs : UpdateField(i, v)

NextUpdate == CallUpdateField

SpecUpdate == InitUpdate /\ [][NextUpdate]_vars

UpdateFieldDone == pc = "done" /\ req.op = "update_field"

\* C3: update_field with identifiers and values of different lengths (after
\* splitting strings on whitespace) fails with ArityMismatch before touching any
\* widget: no external call is made and no widget text changes.
C3_ArityMismatchTouchesNothing ==
    (UpdateFieldDone /\ Len(as_list(req.idn)) # Len(as_list(req.value))) =>
        /\ outcome = ArityMismatch
        /\ calls = <<>>
        /\ text = InitialText

\* idents "a b" against the value "x", on a session where "a" is found.
C3_Witness ==
    /\ UpdateFieldDone
    /\ req.idn = StrArg(<<"a", " ", "b">>)
    /\ req.value = StrArg(<<"x">>)
    /\ Cardinality(Matching(tree, <<"a">>)) = 1
    /\ <<"a">> \notin readonly
    /\ outcome = ArityMismatch

\* The widget a pair's identifier stands for, when exactly one Id contains it.
TargetOf(t, f) == t.props[CHOOSE n \in Matching(t, f) : TRUE].Id

\* How pair k fails, or "none": no match, several matches, or a text that
\* cannot be set.
PairFailure(t, f) ==
    IF Matching(t, f) = {} THEN "not found"
    ELSE IF Cardinality(Matching(t, f)) > 1 THEN "ambiguous"
    ELSE IF TargetOf(t, f) \in readonly THEN "write"
    ELSE "none"

\* The first pair that fails, or one past the last pair when none does.
FirstFailure(t, idn) ==
    CHOOSE k \in 1..(Len(idn) + 1) :
        /\ k <= Len(idn) => PairFailure(t, idn[k]) # "none"
        /\ \A j \in 1..(k - 1) : PairFailure(t, idn[j]) = "none"

\* The widget texts once the first n pairs are written, one after the other.
RECURSIVE TextAfterPairs(_, _, _, _)
TextAfterPairs(t, idn, value, n) ==
    IF n = 0 THEN InitialText
    ELSE [TextAfterPairs(t, idn, value, n - 1) EXCEPT ![TargetOf(t, idn[n])] = value[n]]

IsSetText(c) == c.op = "set_text"
TextWrites == SelectSeq(calls, IsSetText)

WriteFailure == Raise("com_error", "text")

\* C11: update_field applies the (ident, value) pairs one at a time in input
\* order, each ident resolved to its one match; when pair k is the first to
\* fail (not found, ambiguous, or its text cannot be set) the call raises that
\* failure, the fields of the pairs before k hold their new values, and nothing
\* is written for k or any pair after it.
C11_SequentialUpdate ==
    (UpdateFieldDone /\ Len(as_list(req.idn)) = Len(as_list(req.value))) =>
        LET idn == as_list(req.idn)
            value == as_list(req.value)
            k == FirstFailure(tree, idn)
            failure == IF k <= Len(idn) THEN PairFailure(tree, idn[k]) ELSE "none"
            attempts == IF failure = "write" THEN k ELSE k - 1
        IN  /\ text = TextAfterPairs(tree, idn, value, k - 1)
            /\ Len(TextWrites) = attempts
            /\ \A j \in 1..attempts :
                   TextWrites[j] = CallSetText(TargetOf(tree, idn[j]), value[j])
            /\ outcome = CASE failure = "none" -> Return("None")
                            [] failure = "not found" -> NotFound
                            [] failure = "ambiguous" -> AmbiguousMatch
                            [] failure = "write" -> WriteFailure

\* Fields "a" and "b" given "x" and "y", the text of "b" not settable: "a" holds
\* "x" when the call fails.
C11_Witness ==
    /\ UpdateFieldDone
    /\ req.idn = ListArg(<<<<"a">>, <<"b">>>>)
    /\ req.value = ListArg(<<<<"x">>, <<"y">>>>)
    /\ outcome = WriteFailure
    /\ text = [InitialText EXCEPT ![<<"a">>] = <<"x">>]
    /\ Len(TextWrites) = 2

\* The first pair fails: the field of the second stays as it was.
FirstPairFailureReached ==
    /\ UpdateFieldDone
    /\ req.idn = ListArg(<<<<"b">>, <<"a">>>>)
    /\ req.value = ListArg(<<<<"x">>, <<"y">>>>)
    /\ outcome = WriteFailure
    /\ text = InitialText

----------------------------------------------------------------------------
(* Client.Session.get_table *)

MaxRows == 7
MaxCols == 4

\* A table-like widget: Type and Text as the scripting object reports them,
\* RowCount rows of `cols` columns, ColumnOrder the columns (named 0..cols-1) in
\* the order the grid reports them, and what fails on it: the cells whose read
\* raises, whether reading RowCount raises, and the rows and columns that
\* firstVisibleRow / firstVisibleColumn cannot be set to.
Cells(rows, cols) == (0..(rows - 1)) \X (0..(cols - 1))

\* str(n) for n >= 0: its decimal digits.
Digit == <<"0", "1", "2", "3", "4", "5", "6", "7", "8", "9">>
RECURSIVE str(_)
str(n) == IF n < 10 THEN <<Digit[n + 1]>> ELSE Append(str(n \div 10), Digit[(n % 10) + 1])

CallRowCount == [op |-> "get_RowCount"]
CallColumnOrder == [op |-> "get_ColumnOrder"]
CallGetCell(row, column) == [op |-> "GetCell", row |-> row, column |-> column]
CallSetFirstVisibleRow(v) == [op |-> "set_firstVisibleRow", value |-> v]
CallSetFirstVisibleColumn(column) == [op |-> "set_firstVisibleColumn", column |-> column]
CallGetCellValue(row, column) == [op |-> "getcellvalue", row |-> row, column |-> column]

\* The text of a cell that can be read.
CellText(row, column) == <<"cell", row, column>>

Readable(el, row, column) ==
    column < el.cols /\ <<row, column>> \notin el.unreadable

\* The scan passing over a cell that cannot be read and going on to the
\* widget's last column.
RECURSIVE table_row_skipping(_, _, _, _)
table_row_skipping(el, row, column, st) ==
    LET made == Append(st.calls, CallGetCell(row, column))
    IN  IF column >= el.cols THEN [content |-> st.content, calls |-> made]
        ELSE IF Readable(el, row, column)
        THEN table_row_skipping(el, row, column + 1,
                 [content |-> Append(st.content, CellText(row, column)), calls |-> made])
        ELSE table_row_skipping(el, row, column + 1, [content |-> st.content, calls |-> made])

\* The inner `while True` of GuiTableControl: probe columns from `column` on
\* until GetCell raises.
RECURSIVE table_row(_, _, _, _)
table_row(el, row, column, st) ==
    LET made == Append(st.calls, CallGetCell(row, column))
    IN  IF Readable(el, row, column)
        THEN table_row(el, row, column + 1,
                 [content |-> Append(st.content, CellText(row, column)), calls |-> made])
        ELSE [content |-> st.content, calls |-> made]

RECURSIVE table_rows(_, _, _)
table_rows(el, row, st) ==
    IF row >= el.RowCount THEN [out |-> Return(st.output), calls |-> st.calls]
    ELSE LET r == table_row(el, row, 0, [content |-> <<>>, calls |-> st.calls])
         IN  table_rows(el, row + 1, [output |-> Append(st.output, r.content), calls |-> r.calls])

GuiTableControl(element) ==
    IF element.failRowCount
    THEN [out |-> Raise("com_error", "RowCount"), calls |-> <<CallRowCount>>]
    ELSE table_rows(element, 0, [output |-> <<>>, calls |-> <<CallRowCount>>])

\* The inner `for j, column in enumerate(element.ColumnOrder)` of GridViewCtrl,
\* from position j (counted from 0) on; any failure inside the try is passed over.
RECURSIVE grid_row(_, _, _, _)
grid_row(el, row, j, st) ==
    IF j >= Len(el.ColumnOrder) THEN st
    ELSE LET column == el.ColumnOrder[j + 1]
             scrolled == IF j % 3 = 0
                         THEN Append(st.calls, CallSetFirstVisibleColumn(column))
                         ELSE st.calls
         IN  IF j % 3 = 0 /\ column \in el.failScrollColumn
             THEN grid_row(el, row, j + 1, [content |-> st.content, calls |-> scrolled])
             ELSE LET made == Append(scrolled, CallGetCellValue(row, column))
                  IN  IF Readable(el, row, column)
                      THEN grid_row(el, row, j + 1,
                               [content |-> Append(st.content, CellText(row, column)),
                                calls |-> made])
                      ELSE grid_row(el, row, j + 1, [content |-> st.content, calls |-> made])

\* Repositioning counted from 1: at rows 2, 5, 8, ...
RepositionsAt_off_by_one(row) == (row + 1) % 3 = 0

\* Whether the loop over the rows repositions the window at this row.
RepositionsAt(row) == row % 3 = 0

RECURSIVE grid_rows(_, _, _)
grid_rows(el, row, st) ==
    IF row >= el.RowCount THEN [out |-> Return(st.output), calls |-> st.calls]
    ELSE LET scrolled == IF RepositionsAt(row)
                         THEN Append(st.calls, CallSetFirstVisibleRow(str(row)))
                         ELSE st.calls
         IN  IF RepositionsAt(row) /\ row \in el.failScrollRow
             THEN [out |-> Raise("com_error", "firstVisibleRow"), calls |-> scrolled]
             ELSE LET r == grid_row(el, row, 0,
                               [content |-> <<>>, calls |-> Append(scrolled, CallColumnOrder)])
                  IN  grid_rows(el, row + 1,
                          [output |-> Append(st.output, r.content), calls |-> r.calls])

GridViewCtrl(element) ==
    IF element.failRowCount
    THEN [out |-> Raise("com_error", "RowCount"), calls |-> <<CallRowCount>>]
    ELSE grid_rows(element, 0, [output |-> <<>>, calls |-> <<CallRowCount>>])

\* 'GridViewCtrl' in table.Text, the Text taken in pieces such as
\* "SAPGUI" "." "GridViewCtrl" "." "1".
GridMarker == <<"GridViewCtrl">>
HasGridMarker(el) == Contains(GridMarker, el.Text)

Unsupported(what) ==
    [kind |-> "raise", exc |-> "TypeError", msg |-> "type object is not supported!",
     names |-> what]

\* [row for row in output if row]
RECURSIVE drop_empty(_)
drop_empty(output) ==
    IF output = <<>> THEN <<>>
    ELSE IF Head(output) = <<>> THEN drop_empty(Tail(output))
    ELSE <<Head(output)>> \o drop_empty(Tail(output))

\* The match with every GuiShell taken for a grid view.
extract_any_shell(el) ==
    IF el.Type = "GuiTableControl" THEN GuiTableControl(el)
    ELSE IF el.Type = "GuiShell" THEN GridViewCtrl(el)
    ELSE [out |-> Unsupported(el.Type), calls |-> <<>>]

\* The match on table.Type.
extract(el) ==
    IF el.Type = "GuiTableControl" THEN GuiTableControl(el)
    ELSE IF el.Type = "GuiShell"
    THEN (IF HasGridMarker(el) THEN GridViewCtrl(el)
          ELSE [out |-> Unsupported(el.Text), calls |-> <<>>])
    ELSE [out |-> Unsupported(el.Type), calls |-> <<>>]

\* get_table that returns the extracted rows as they are.
get_table_unfiltered(t, idn_arg) ==
    IF idn_arg.kind # "str"
    THEN [out |-> Raise("ValueError", "Provide Id to table as a string!"), calls |-> <<>>]
    ELSE LET found == find_element(t, idn_arg.s, TRUE)
         IN  IF Raised(found.out) THEN found
             ELSE LET r == extract(table)
                  IN  [out |-> r.out, calls |-> found.calls \o r.calls]

get_table(t, idn_arg) ==
    IF idn_arg.kind # "str"
    THEN [out |-> Raise("ValueError", "Provide Id to table as a string!"), calls |-> <<>>]
    ELSE LET found == find_element(t, idn_arg.s, TRUE)
         IN  IF Raised(found.out) THEN found
             ELSE LET r == extract(table)
                  IN  IF Raised(r.out) THEN [out |-> r.out, calls |-> found.calls \o r.calls]
                      ELSE [out |-> Return(drop_empty(r.out.value)),
                            calls |-> found.calls \o r.calls]

GetTable(idn_arg) ==
    /\ pc = "idle"
    /\ pc' = "done"
    /\ req' = [op |-> "get_table", idn |-> idn_arg]
    /\ LET r == get_table(tree, idn_arg)
       IN  outcome' = r.out /\ calls' = r.calls
    /\ UNCHANGED <<tree, text, readonly, table, local>>
    /\ UNCHANGED <<txnVars, clientVars>>

----------------------------------------------------------------------------
(* The table extractor's specification: one call of get_table on a session *)
(* whose widget "a" is any of the widgets below.                           *)

GridText == <<"SAPGUI", ".", "GridViewCtrl", ".", "1">>
TreeText == <<"SAPGUI", ".", "TreeView", ".", "1">>

WidgetKinds ==
    {[Type |-> "GuiTableControl", Text |-> <<>>],
     [Type |-> "GuiShell", Text |-> GridText],
     [Type |-> "GuiShell", Text |-> TreeText],
     [Type |-> "GuiShell", Text |-> <<>>],
     [Type |-> "GuiTextField", Text |-> GridText]}

ColumnOrders(cols) == {[j \in 1..cols |-> j - 1], [j \in 1..cols |-> cols - j]}

NoFault == [unreadable |-> {}, failRowCount |-> FALSE, failScrollRow |-> {},
            failScrollColumn |-> {}]

\* What may be wrong with a widget of the given size: nothing, one unreadable
\* cell, one unreadable row or column, or one failing property.
Faults(rows, cols) ==
    {NoFault}
    \cup {[NoFault EXCEPT !.unreadable = {c}] : c \in Cells(rows, cols)}
    \cup {[NoFault EXCEPT !.unreadable = {c \in Cells(rows, cols) : c[1] = r}] :
              r \in 0..(rows - 1)}
    \cup {[NoFault EXCEPT !.unreadable = {c \in Cells(rows, cols) : c[2] = k}] :
              k \in 0..(cols - 1)}
    \cup {[NoFault EXCEPT !.failRowCount = TRUE]}
    \cup {[NoFault EXCEPT !.failScrollRow = {r}] : r \in 0..(rows - 1)}
    \cup {[NoFault EXCEPT !.failScrollColumn = {k}] : k \in 0..(cols - 1)}

Widget(kind, rows, cols, order, fault) ==
    [Type |-> kind.Type, Text |-> kind.Text, RowCount |-> rows, cols |-> cols,
     ColumnOrder |-> order, unreadable |-> fault.unreadable,
     failRowCount |-> fault.failRowCount, failScrollRow |-> fault.failScrollRow,
     failScrollColumn |-> fault.failScrollColumn]

TableWidgets ==
    UNION {{Widget(kind, rows, cols, order, fault) :
                kind \in WidgetKinds, order \in ColumnOrders(cols), fault \in Faults(rows, cols)} :
           rows \in 0..MaxRows, cols \in 0..MaxCols}

\* A root without properties over the widget "a".
TableTree ==
    [props |-> <<NoProps, [hasId |-> TRUE, Id |-> <<"a">>]>>, children |-> <<<<2>>, <<>>>>]

TableArgs == {StrArg(<<"a">>), StrArg(<<"b", "b">>), ListArg(<<<<"a">>>>)}

InitTable ==
    /\ tree = TableTree
    /\ text = InitialText
    /\ readonly = {}
    /\ table \in TableWidgets
    /\ SessionAtRest
    /\ pc = "idle"
    /\ req = NoReq
    /\ outcome = NoOutcome
    /\ calls = <<>>

CallGetTable == \E idn \in TableArgs : GetTable(idn)

NextTable == CallGetTable

SpecTable == InitTable /\ [][NextTable]_vars

GetTableDone == pc = "done" /\ req.op = "get_table"

\* get_table reached the widget: the Id was a string and was found.
TableLocated == GetTableDone /\ req.idn = StrArg(<<"a">>)

IsFixedGrid(el) == el.Type = "GuiTableControl"
IsVirtualGrid(el) == el.Type = "GuiShell" /\ HasGridMarker(el)

\* v holds the non-empty rows of raw, in raw's order.
IsNonEmptyRowsOf(raw, v) ==
    LET keep == {i \in DOMAIN raw : raw[i] # <<>>}
    IN  /\ Len(v) = Cardinality(keep)
        /\ \A i \in keep : v[1 + Cardinality({j \in keep : j < i})] = raw[i]

\* C8: the table get_table returns holds no empty row, for both widget kinds: the
\* rows without an extracted cell are dropped and the others keep their order; a
\* fixed grid of 3 rows by 2 columns with one row unreadable yields 2 rows.
C8_EmptyRowsDropped ==
    (TableLocated /\ Returned(outcome)) =>
        /\ \A i \in DOMAIN outcome.value : outcome.value[i] # <<>>
        /\ IsNonEmptyRowsOf(extract(table).out.value, outcome.value)
        /\ (/\ IsFixedGrid(table) /\ table.RowCount = 3 /\ table.cols = 2
            /\ \E r \in 0..2 : table.unreadable = {<<r, 0>>, <<r, 1>>})
               => Len(outcome.value) = 2

C8_Witness ==
    /\ TableLocated
    /\ IsFixedGrid(table) /\ table.RowCount = 3 /\ table.cols = 2
    /\ table.unreadable = {<<1, 0>>, <<1, 1>>}
    /\ outcome = Return(<<<<CellText(0, 0), CellText(0, 1)>>, <<CellText(2, 0), CellText(2, 1)>>>>)

IsRowScroll(c) == c.op = "set_firstVisibleRow"
IsColumnScroll(c) == c.op = "set_firstVisibleColumn"
IsCellRead(c) == c.op \in {"GetCell", "getcellvalue"}

RowScrolls == SelectSeq(calls, IsRowScroll)
ColumnScrolls == SelectSeq(calls, IsColumnScroll)

\* str(0), str(3), str(6), ...: the row indices below n that are multiples of 3.
ExpectedRowScrolls(n) == [k \in 1..((n + 2) \div 3) |-> str(3 * (k - 1))]

\* The place of a column in ColumnOrder, counted from 0.
PlaceOf(el, column) == (CHOOSE p \in DOMAIN el.ColumnOrder : el.ColumnOrder[p] = column) - 1

IsPrefix(a, b) == Len(a) <= Len(b) /\ SubSeq(b, 1, Len(a)) = a

\* C9: virtualized-grid extraction sets firstVisibleRow exactly at the rows
\* 0,3,6,... below the row count, once each and before any cell of that row is
\* read, and sets firstVisibleColumn at every 3rd place of ColumnOrder, in each
\* row, right before that column's cell is read; 7 rows by 4 columns make 3 row
\* repositionings.  (An extraction that a failing firstVisibleRow aborts has made
\* the repositionings up to that row.)
C9_RepositioningSchedule ==
    (TableLocated /\ IsVirtualGrid(table)) =>
        LET rowValues == [i \in DOMAIN RowScrolls |-> RowScrolls[i].value]
            expected == ExpectedRowScrolls(table.RowCount)
            perRow == (Len(table.ColumnOrder) + 2) \div 3
        IN  /\ IsPrefix(rowValues, expected)
            /\ Returned(outcome) => rowValues = expected
            /\ \A i, j \in DOMAIN calls :
                   (/\ IsRowScroll(calls[i])
                    /\ calls[j].op = "getcellvalue"
                    /\ calls[i].value = str(calls[j].row)) => i < j
            /\ \A i \in DOMAIN calls :
                   IsColumnScroll(calls[i]) => PlaceOf(table, calls[i].column) % 3 = 0
            /\ \A j \in DOMAIN calls :
                   (calls[j].op = "getcellvalue" /\ PlaceOf(table, calls[j].column) % 3 = 0)
                       => j > 1 /\ calls[j - 1] = CallSetFirstVisibleColumn(calls[j].column)
            /\ Returned(outcome) => Len(ColumnScrolls) = table.RowCount * perRow
            /\ (Returned(outcome) /\ table.RowCount = 7 /\ Len(table.ColumnOrder) = 4)
                   => Len(RowScrolls) = 3

C9_Witness ==
    /\ TableLocated /\ IsVirtualGrid(table)
    /\ table.RowCount = 7 /\ Len(table.ColumnOrder) = 4
    /\ Returned(outcome)
    /\ [i \in DOMAIN RowScrolls |-> RowScrolls[i].value] = <<<<"0">>, <<"3">>, <<"6">>>>
    /\ Len(ColumnScrolls) = 14

\* C10: get_table on a located widget that is neither a GuiTableControl nor a
\* GuiShell whose Text contains 'GridViewCtrl' fails with a TypeError naming the
\* widget's Text (a GuiShell) or Type (any other), and reads no row count and no
\* cell.
C10_UnsupportedWidget ==
    (TableLocated /\ ~IsFixedGrid(table) /\ ~IsVirtualGrid(table)) =>
        /\ outcome = Unsupported(IF table.Type = "GuiShell" THEN table.Text ELSE table.Type)
        /\ \A i \in DOMAIN calls : ~IsCellRead(calls[i]) /\ calls[i] # CallRowCount

C10_Witness ==
    /\ TableLocated
    /\ table.Type = "GuiShell" /\ table.Text = TreeText /\ table.RowCount = 3 /\ table.cols = 2
    /\ outcome = Unsupported(TreeText)

\* The external call failed on this widget.
CallFailed(el, c) ==
    \/ c = CallRowCount /\ el.failRowCount
    \/ IsRowScroll(c) /\ \E r \in el.failScrollRow : c.value = str(r)
    \/ IsColumnScroll(c) /\ c.column \in el.failScrollColumn
    \/ c.op = "findById" /\ c.id \notin LiveIds
    \/ IsCellRead(c) /\ ~Readable(el, c.row, c.column)

CellReads == SelectSeq(calls, IsCellRead)

\* f[1] \o f[2] \o ... \o f[n]
RECURSIVE Concat(_, _)
Concat(f, n) == IF n = 0 THEN <<>> ELSE Concat(f, n - 1) \o f[n]

\* The first column of the row whose probe fails: the first unreadable one, or
\* the one past the widget's last.
FirstFailingColumn(el, row) ==
    CHOOSE p \in 0..el.cols :
        /\ ~Readable(el, row, p)
        /\ \A c \in 0..(p - 1) : Readable(el, row, c)

\* C18: fixed-grid extraction scans each of the rows 0..RowCount-1 by probing
\* the columns 0,1,2,... up to the first probe that fails: the row's content is
\* the texts of the columns before that one, in order, no cell of the row past
\* it is read, and the table returned is made of these rows (the empty ones
\* dropped).
C18_FixedGridRowScan ==
    (TableLocated /\ IsFixedGrid(table) /\ ~table.failRowCount) =>
        LET stop == [r \in 1..table.RowCount |-> FirstFailingColumn(table, r - 1)]
            probes == [r \in 1..table.RowCount |->
                          [c \in 1..(stop[r] + 1) |-> CallGetCell(r - 1, c - 1)]]
            rows == [r \in 1..table.RowCount |->
                        [c \in 1..stop[r] |-> CellText(r - 1, c - 1)]]
        IN  /\ CellReads = Concat(probes, table.RowCount)
            /\ Returned(outcome)
            /\ IsNonEmptyRowsOf(rows, outcome.value)

\* Two rows of three columns, the middle cell of the second row unreadable:
\* the second row is cut after its first cell and its third cell is not read.
C18_Witness ==
    /\ TableLocated /\ IsFixedGrid(table)
    /\ table.RowCount = 2 /\ table.cols = 3
    /\ table.unreadable = {<<1, 1>>}
    /\ outcome = Return(<<<<CellText(0, 0), CellText(0, 1), CellText(0, 2)>>,
                          <<CellText(1, 0)>>>>)
    /\ \A i \in DOMAIN calls : calls[i] # CallGetCell(1, 2)

\* C19: virtualized-grid extraction reads, for every row, the cell of every
\* column of ColumnOrder, in that order; a cell whose read fails is left out of
\* its row with nothing in its place and the scan goes on, so each row holds
\* the values of its readable cells in ColumnOrder.
C19_GridRowScan ==
    (TableLocated /\ IsVirtualGrid(table) /\ Returned(outcome)) =>
        LET n == Len(table.ColumnOrder)
            reads == [r \in 1..table.RowCount |->
                         [j \in 1..n |-> CallGetCellValue(r - 1, table.ColumnOrder[j])]]
            rows == [r \in 1..table.RowCount |->
                        LET CanRead(column) == Readable(table, r - 1, column)
                            read == SelectSeq(table.ColumnOrder, CanRead)
                        IN  [k \in 1..Len(read) |-> CellText(r - 1, read[k])]]
        IN  /\ CellReads = Concat(reads, table.RowCount)
            /\ IsNonEmptyRowsOf(rows, outcome.value)

NoColumnScrollFails ==
    \A i \in DOMAIN calls : IsColumnScroll(calls[i]) => ~CallFailed(table, calls[i])

\* What the code does: the row scan is the one described unless setting
\* firstVisibleColumn fails, and then the cell of that column is neither read
\* nor part of its row.
GridRowScanBehaviour ==
    (TableLocated /\ IsVirtualGrid(table) /\ Returned(outcome)) =>
        LET n == Len(table.ColumnOrder)
            Reached(j) == (j - 1) % 3 # 0 \/ table.ColumnOrder[j] \notin table.failScrollColumn
            places == SelectSeq([j \in 1..n |-> j], Reached)
            reads == [r \in 1..table.RowCount |->
                         [k \in 1..Len(places) |->
                             CallGetCellValue(r - 1, table.ColumnOrder[places[k]])]]
            rows == [r \in 1..table.RowCount |->
                        LET CanRead(j) == Reached(j) /\ Readable(table, r - 1, table.ColumnOrder[j])
                            read == SelectSeq([j \in 1..n |-> j], CanRead)
                        IN  [k \in 1..Len(read) |-> CellText(r - 1, table.ColumnOrder[read[k]])]]
        IN  /\ CellReads = Concat(reads, table.RowCount)
            /\ IsNonEmptyRowsOf(rows, outcome.value)

\* A grid of two rows and three columns whose middle cell of the first row
\* cannot be read: the row holds its first and third cell.
UnreadableCellOmitted ==
    /\ TableLocated /\ IsVirtualGrid(table)
    /\ table.RowCount = 2 /\ table.ColumnOrder = <<0, 1, 2>>
    /\ table.unreadable = {<<0, 1>>}
    /\ outcome = Return(<<<<CellText(0, 0), CellText(0, 2)>>,
                          <<CellText(1, 0), CellText(1, 1), CellText(1, 2)>>>>)

\* C17: of the external calls get_table makes, only a failing cell read is
\* passed over: when reading the row count, setting firstVisibleRow, setting
\* firstVisibleColumn or resolving the widget fails, get_table raises.
C17_OnlyCellReadsAbsorbed ==
    GetTableDone =>
        /\ (\E i \in DOMAIN calls : CallFailed(table, calls[i]) /\ ~IsCellRead(calls[i]))
               => Raised(outcome)
        /\ (req.idn.kind = "str" /\ Matching(tree, req.idn.s) = {}) => outcome = NotFound

\* What the code does: a failing firstVisibleColumn is passed over like a
\* failing cell read, and the cell it was set for is not read; every other
\* failure is raised.
TableFailuresBehaviour ==
    GetTableDone =>
        /\ (\E i \in DOMAIN calls :
                /\ CallFailed(table, calls[i])
                /\ ~IsCellRead(calls[i])
                /\ ~IsColumnScroll(calls[i]))
               => /\ Raised(outcome)
                  /\ outcome.exc = "com_error"
                  /\ CallFailed(table, calls[Len(calls)])
        /\ (req.idn.kind = "str" /\ Matching(tree, req.idn.s) = {}) => outcome = NotFound
        /\ \A i \in DOMAIN calls :
               (IsColumnScroll(calls[i]) /\ CallFailed(table, calls[i])) =>
                   (i = Len(calls) \/ calls[i + 1].op # "getcellvalue"
                                   \/ calls[i + 1].column # calls[i].column)

\* A grid of one cell whose firstVisibleColumn cannot be set: get_table
\* returns an empty table.
ColumnScrollFailureAbsorbed ==
    /\ TableLocated /\ IsVirtualGrid(table)
    /\ table.RowCount = 1 /\ table.cols = 1
    /\ table.failScrollColumn = {0}
    /\ outcome = Return(<<>>)

----------------------------------------------------------------------------
(* Client.Session.open_transaction and close_transaction, one external call *)
(* per step; the session's window may go away between any two steps.       *)

MaxOps == 2

Codes == {"VA01", "MM03"}
CloseCommand == "/n"
CommandField == "wnd[0]/tbar[0]/okcd"
MainWindow == "wnd[0]"
EnterKey == 0

CallSendVKey(window, k) == [op |-> "sendVKey", id |-> window, key |-> k]

ComError(call) == [kind |-> "raise", exc |-> "com_error", msg |-> "call failed", call |-> call]

\* except Exception as e: raise ValueError(f"Unable to close connection due to:\n{e}") from e
close_transaction_except(e) ==
    [kind |-> "raise", exc |-> "ValueError", msg |-> "Unable to close connection due to:",
     cause |-> e]

\* The except clause left out: the error goes up as it is.
open_transaction_except_reraise(transaction, e) == e

\* except Exception as e: raise ValueError(f"{transaction} could either not be found or
\* there is a problem with the SAP connection, more details:\n{e}") from e
open_transaction_except(transaction, e) ==
    [kind |-> "raise", exc |-> "ValueError",
     msg |-> "could either not be found or there is a problem with the SAP connection, more details:",
     transaction |-> transaction, cause |-> e]

\* What a failing external call becomes on its way to the caller.
Surfaced(e) ==
    LET inner == IF local.phase = "close" THEN close_transaction_except(e) ELSE e
    IN  IF req.op = "open_transaction"
        THEN open_transaction_except(req.transaction, inner)
        ELSE inner

\* The open phase writing the close command again.
command_text_close_again(phase) == CloseCommand

\* What is written to the command field: "/n" by close_transaction, the
\* transaction by open_transaction.
command_text(phase) ==
    IF phase = "close" THEN CloseCommand ELSE req.transaction

\* The window handles Enter: the command field's text is carried out and cleared.
ProcessEnter ==
    /\ openTxn' = IF okcd = CloseCommand THEN "none"
                  ELSE IF okcd = "" THEN openTxn
                  ELSE okcd
    /\ okcd' = ""

\* The call is over; history records it with the session state it leaves.
Finish(result) ==
    /\ pc' = "done"
    /\ outcome' = result
    /\ history' = Append(history, [req |-> req, outcome |-> result,
                                   openTxn |-> openTxn', okcd |-> okcd'])
    /\ local' = NoLocal

\* An external call on a session whose window is gone raises.
Fails(call) ==
    /\ ~alive
    /\ calls' = Append(calls, call)
    /\ UNCHANGED <<okcd, openTxn, alive, req>>
    /\ Finish(Surfaced(ComError(call)))

\* open_transaction going straight to its own command, close_transaction()
\* not called.
Begin_without_close(request) ==
    /\ pc \in {"idle", "done"}
    /\ Len(history) < MaxOps
    /\ pc' = "find_okcd"
    /\ req' = request
    /\ outcome' = NoOutcome
    /\ calls' = <<>>
    /\ local' = [phase |-> IF request.op = "open_transaction" THEN "open" ELSE "close"]
    /\ UNCHANGED <<okcd, openTxn, alive, history>>
    /\ UNCHANGED <<locatorVars, clientVars>>

Begin(request) ==
    /\ pc \in {"idle", "done"}
    /\ Len(history) < MaxOps
    /\ pc' = "find_okcd"
    /\ req' = request
    /\ outcome' = NoOutcome
    /\ calls' = <<>>
    /\ local' = [phase |-> "close"]
    /\ UNCHANGED <<okcd, openTxn, alive, history>>
    /\ UNCHANGED <<locatorVars, clientVars>>

OpenTransaction(transaction) ==
    Begin([op |-> "open_transaction", transaction |-> transaction])

CloseTransaction == Begin([op |-> "close_transaction"])

\* self.ses.findById("wnd[0]/tbar[0]/okcd")
FindCommandField ==
    /\ pc = "find_okcd"
    /\ \/ Fails(CallFindById(CommandField))
       \/ /\ alive
          /\ calls' = Append(calls, CallFindById(CommandField))
          /\ pc' = "set_okcd"
          /\ UNCHANGED <<okcd, openTxn, alive, history, local, req, outcome>>
    /\ UNCHANGED <<locatorVars, clientVars>>

\* .text = "/n"   or   .text = f"{transaction}"
SetCommandText ==
    /\ pc = "set_okcd"
    /\ \/ Fails(CallSetText(CommandField, command_text(local.phase)))
       \/ /\ alive
          /\ calls' = Append(calls, CallSetText(CommandField, command_text(local.phase)))
          /\ okcd' = command_text(local.phase)
          /\ pc' = "find_wnd"
          /\ UNCHANGED <<openTxn, alive, history, local, req, outcome>>
    /\ UNCHANGED <<locatorVars, clientVars>>

\* send_key(0): self.ses.findById(f"wnd[{window}]")
FindWindow ==
    /\ pc = "find_wnd"
    /\ \/ Fails(CallFindById(MainWindow))
       \/ /\ alive
          /\ calls' = Append(calls, CallFindById(MainWindow))
          /\ pc' = "send_key"
          /\ UNCHANGED <<okcd, openTxn, alive, history, local, req, outcome>>
    /\ UNCHANGED <<locatorVars, clientVars>>

\* send_key(0): .sendVKey(k); then on to the open phase, or back to the caller.
SendEnter ==
    /\ pc = "send_key"
    /\ \/ Fails(CallSendVKey(MainWindow, EnterKey))
       \/ /\ alive
          /\ calls' = Append(calls, CallSendVKey(MainWindow, EnterKey))
          /\ ProcessEnter
          /\ IF local.phase = "close" /\ req.op = "open_transaction"
             THEN /\ pc' = "find_okcd"
                  /\ local' = [phase |-> "open"]
                  /\ UNCHANGED <<history, req, outcome>>
             ELSE /\ Finish(Return("None"))
                  /\ UNCHANGED req
          /\ UNCHANGED alive
    /\ UNCHANGED <<locatorVars, clientVars>>

\* The user closes the window, or the connection to the server is lost.
WindowGoesAway ==
    /\ alive
    /\ alive' = FALSE
    /\ UNCHANGED <<okcd, openTxn, history, local, pc, req, outcome, calls>>
    /\ UNCHANGED <<locatorVars, clientVars>>

InitTxn ==
    /\ tree = TableTree
    /\ text = InitialText
    /\ readonly = {}
    /\ table = NoTable
    /\ okcd \in {""} \cup Codes
    /\ openTxn \in {"none"} \cup Codes
    /\ alive = TRUE
    /\ history = <<>>
    /\ local = NoLocal
    /\ ClientAtRest
    /\ pc = "idle"
    /\ req = NoReq
    /\ outcome = NoOutcome
    /\ calls = <<>>

CallOpenTransaction == \E transaction \in Codes : OpenTransaction(transaction)

NextTxn ==
    \/ CallOpenTransaction
    \/ CloseTransaction
    \/ FindCommandField
    \/ SetCommandText
    \/ FindWindow
    \/ SendEnter
    \/ WindowGoesAway

SpecTxn == InitTxn /\ [][NextTxn]_vars

OpenTransactionDone == pc = "done" /\ req.op = "open_transaction"

\* C6: open_transaction(code) on a logged-in session succeeds whether no
\* transaction, the same one or another one is open, and leaves exactly the
\* transaction `code` open; a second open_transaction of the same code right
\* after the first succeeds too and ends in the state the first one left.
C6_OpenTransactionIdempotent ==
    /\ (OpenTransactionDone /\ alive) =>
           /\ outcome = Return("None")
           /\ openTxn = req.transaction
    /\ \A i \in 2..Len(history) :
           (/\ history[i].req.op = "open_transaction"
            /\ history[i - 1].req = history[i].req
            /\ Returned(history[i - 1].outcome)
            /\ alive)
               => /\ Returned(history[i].outcome)
                  /\ history[i].openTxn = history[i - 1].openTxn
                  /\ history[i].okcd = history[i - 1].okcd

C6_Witness ==
    /\ OpenTransactionDone /\ alive
    /\ Len(history) = 2
    /\ history[1].req = [op |-> "open_transaction", transaction |-> "VA01"]
    /\ history[2].req = [op |-> "open_transaction", transaction |-> "VA01"]
    /\ history[1].openTxn = "VA01"
    /\ outcome = Return("None")
    /\ openTxn = "VA01"

\* The error at the bottom of a chain of causes.
RECURSIVE RootCause(_)
RootCause(e) == IF "cause" \in DOMAIN e THEN RootCause(e.cause) ELSE e

\* C7: a failing field resolution or key dispatch during open_transaction, in
\* the close phase or in the open phase, reaches the caller as one ValueError
\* that names the transaction and carries the failure of that call as its cause;
\* nothing else escapes open_transaction.
C7_FailuresWrapped ==
    OpenTransactionDone =>
        \/ outcome = Return("None")
        \/ /\ Raised(outcome)
           /\ outcome.exc = "ValueError"
           /\ "transaction" \in DOMAIN outcome
           /\ outcome.transaction = req.transaction
           /\ calls # <<>>
           /\ RootCause(outcome) = ComError(calls[Len(calls)])

C7_Witness ==
    /\ OpenTransactionDone
    /\ req.transaction = "VA01"
    /\ calls = <<CallFindById(CommandField), CallSetText(CommandField, CloseCommand),
                 CallFindById(MainWindow), CallSendVKey(MainWindow, EnterKey)>>
    /\ outcome = open_transaction_except("VA01",
                     close_transaction_except(ComError(CallSendVKey(MainWindow, EnterKey))))

\* The external calls of a whole open_transaction(code), in order.
OpenTransactionCalls(code) ==
    <<CallFindById(CommandField), CallSetText(CommandField, CloseCommand),
      CallFindById(MainWindow), CallSendVKey(MainWindow, EnterKey),
      CallFindById(CommandField), CallSetText(CommandField, code),
      CallFindById(MainWindow), CallSendVKey(MainWindow, EnterKey)>>

\* The last call made is the one that failed.
LastCallFailed == calls # <<>> /\ RootCause(outcome) = ComError(calls[Len(calls)])

\* C15: open_transaction(code) makes its external calls in this order: "/n"
\* written to wnd[0]/tbar[0]/okcd, Enter (key 0) sent to wnd[0], the code
\* written to the command field, Enter sent again; it stops at the first call
\* that fails, so the code is written only after the close command and its
\* Enter have gone through, and a failure in the close phase leaves it unwritten.
C15_OpenTransactionOrder ==
    req.op = "open_transaction" =>
        LET full == OpenTransactionCalls(req.transaction)
        IN  /\ IsPrefix(calls, full)
            /\ pc = "done" =>
                   IF Returned(outcome) THEN calls = full
                   ELSE /\ LastCallFailed
                        /\ Len(calls) <= 4 =>
                               \A i \in DOMAIN calls :
                                   calls[i] # CallSetText(CommandField, req.transaction)

\* open_transaction("MM03") went through all eight calls while VA01 was open.
C15_Witness ==
    /\ OpenTransactionDone
    /\ req.transaction = "MM03"
    /\ calls = OpenTransactionCalls("MM03")
    /\ outcome = Return("None")
    /\ Len(history) = 1
    /\ openTxn = "MM03"

\* The Enter of the close phase fails: the code is not written.
ClosePhaseFailureReached ==
    /\ OpenTransactionDone
    /\ Len(calls) = 4
    /\ Raised(outcome)
    /\ okcd = CloseCommand

\* The open phase fails as well: the transaction's own Enter is not dispatched.
OpenPhaseFailureReached ==
    /\ OpenTransactionDone
    /\ Len(calls) = 8
    /\ outcome = open_transaction_except(req.transaction,
                     ComError(CallSendVKey(MainWindow, EnterKey)))

----------------------------------------------------------------------------
(* Client.new_session, one step per external call of the discovery poll;   *)
(* the application creates and closes sessions and the clock advances      *)
(* between any two steps.  Of new_session's external calls, `calls` lists   *)
(* OpenConnection, createSession and findById; the reads of Children,      *)
(* which the loop repeats without bound, show in `local`.                  *)

MaxConns == 2
MaxSessions == 3
MaxTime == 30

\* while ... and (current - start) < 20
PollTimeout == 20

\* The clock is watched in steps of half the timeout.
TickStep == PollTimeout \div 2

Servers == {"S1", "S2"}

CallCreateSession(master) == [op |-> "createSession", id |-> master]
CallOpenConnection(server) == [op |-> "OpenConnection", server |-> server]

\* A session's Id: the connection's place and the session's number in it.
SessionId(c, n) == <<c, n>>

\* [child.Id for child in self.connection.Children]
ChildIds(c) == {connections[c].Children[k] : k \in DOMAIN connections[c].Children}

\* Client.Session(ses)
Session(id) == [session |-> id]

\* application.OpenConnection(sap_server, True): a new connection with its
\* first session, or a COM error when no further connection can be opened.
OpenConnection(conns, server) ==
    IF Len(conns) >= MaxConns
    THEN [out |-> ComError(CallOpenConnection(server)), conns |-> conns, connection |-> 0]
    ELSE LET c == Len(conns) + 1
         IN  [out |-> Return(FALSE),
              conns |-> Append(conns, [Description |-> server,
                                       Children |-> <<SessionId(c, 0)>>]),
              connection |-> c]

\* _open_connection returning True for a connection it has just opened too.
open_connection_always_true(conns, server) ==
    LET found == {i \in 1..Len(conns) : conns[i].Description = server}
    IN  IF found # {}
        THEN [out |-> Return(TRUE), conns |-> conns,
              connection |-> CHOOSE i \in found : \A j \in found : i <= j]
        ELSE LET r == OpenConnection(conns, server)
             IN  IF Raised(r.out) THEN r ELSE [r EXCEPT !.out = Return(TRUE)]

\* _open_connection looking at the first connection only.
open_connection_first_only(conns, server) ==
    IF Len(conns) = 0 THEN OpenConnection(conns, server)
    ELSE IF conns[1].Description = server
    THEN [out |-> Return(TRUE), conns |-> conns, connection |-> 1]
    ELSE OpenConnection(conns, server)

\* _open_connection: attach to the first connection whose Description is the
\* server id (returning True), or open a new one (returning False).
open_connection(conns, server) ==
    IF Len(conns) = 0 THEN OpenConnection(conns, server)
    ELSE LET found == {i \in 1..Len(conns) : conns[i].Description = server}
         IN  IF found # {}
             THEN [out |-> Return(TRUE), conns |-> conns,
                   connection |-> CHOOSE i \in found : \A j \in found : i <= j]
             ELSE OpenConnection(conns, server)

\* The loop condition with the comparison turned around.
poll_continues_flipped(after, before, current, start) ==
    (after \ before) = {} /\ (current - start) > PollTimeout

\* while not(after - before) and (current - start) < 20
poll_continues(after, before, current, start) ==
    (after \ before) = {} /\ (current - start) < PollTimeout

\* The selection made among all the sessions seen.
select_candidates_any(after, before) == after

\* list(after - before): the Ids one of which becomes selected_child.
select_candidates(after, before) == after \ before

NewSessionLocals(master) ==
    [phase |-> "new_session", master |-> master, before |-> {}, after |-> {},
     start |-> 0, current |-> 0, created |-> FALSE]

Finished(result) ==
    /\ pc' = "done"
    /\ outcome' = result

\* Lines 68-75: take or open the connection; a connection just opened yields its
\* first session at once.
NewSession(server) ==
    /\ pc \in {"idle", "done"}
    /\ req' = [op |-> "new_session", sap_server |-> server]
    /\ IF connection = 0 \/ connections[connection].Description # server
       THEN LET r == open_connection(connections, server)
            IN  IF Raised(r.out)
                THEN /\ Finished(r.out)
                     /\ calls' = <<CallOpenConnection(server)>>
                     /\ local' = NewSessionLocals(SessionId(0, 0))
                     /\ UNCHANGED <<connections, connection>>
                ELSE LET master == Head(r.conns[r.connection].Children)
                     IN  /\ connections' = r.conns
                         /\ connection' = r.connection
                         /\ local' = NewSessionLocals(master)
                         /\ IF r.out.value
                            THEN /\ pc' = "before"
                                 /\ outcome' = NoOutcome
                                 /\ calls' = <<>>
                            ELSE /\ Finished(Return(Session(master)))
                                 /\ calls' = <<CallOpenConnection(server)>>
       ELSE /\ local' = NewSessionLocals(Head(connections[connection].Children))
            /\ pc' = "before"
            /\ outcome' = NoOutcome
            /\ calls' = <<>>
            /\ UNCHANGED <<connections, connection>>
    /\ UNCHANGED <<pending, now, engineVars>>
    /\ UNCHANGED <<locatorVars, txnVars>>

\* before = set([child.Id for child in self.connection.Children])
SnapshotBefore ==
    /\ pc = "before"
    /\ local' = [local EXCEPT !.before = ChildIds(connection)]
    /\ pc' = "create"
    /\ UNCHANGED <<req, outcome, calls>>
    /\ UNCHANGED <<locatorVars, txnVars, clientVars>>

\* master_session.createSession()
CreateSession ==
    /\ pc = "create"
    /\ pending' = pending \cup {connection}
    /\ local' = [local EXCEPT !.created = TRUE]
    /\ calls' = Append(calls, CallCreateSession(local.master))
    /\ pc' = "first_poll"
    /\ UNCHANGED <<req, outcome, connections, connection, now, engineVars>>
    /\ UNCHANGED <<locatorVars, txnVars>>

AfterPoll(l) ==
    IF poll_continues(l.after, l.before, l.current, l.start) THEN "clock" ELSE "select"

\* after = set(...); start = time.time(); current = time.time(); the loop test
FirstPoll ==
    /\ pc = "first_poll"
    /\ LET l == [local EXCEPT !.after = ChildIds(connection), !.start = now, !.current = now]
       IN  local' = l /\ pc' = AfterPoll(l)
    /\ UNCHANGED <<req, outcome, calls>>
    /\ UNCHANGED <<locatorVars, txnVars, clientVars>>

\* The loop going round without reading the clock again.
ReadClock_never ==
    /\ pc = "clock"
    /\ pc' = "poll"
    /\ UNCHANGED <<req, outcome, calls, local>>
    /\ UNCHANGED <<locatorVars, txnVars, clientVars>>

\* current = time.time()
ReadClock ==
    /\ pc = "clock"
    /\ local' = [local EXCEPT !.current = now]
    /\ pc' = "poll"
    /\ UNCHANGED <<req, outcome, calls>>
    /\ UNCHANGED <<locatorVars, txnVars, clientVars>>

\* after = set([child.Id for child in self.connection.Children]); the loop test
Poll ==
    /\ pc = "poll"
    /\ LET l == [local EXCEPT !.after = ChildIds(connection)]
       IN  local' = l /\ pc' = AfterPoll(l)
    /\ UNCHANGED <<req, outcome, calls>>
    /\ UNCHANGED <<locatorVars, txnVars, clientVars>>

\* selected_child = list(after - before)[0]; self.connection.findById(selected_child)
Select ==
    /\ pc = "select"
    /\ LET candidates == select_candidates(local.after, local.before)
       IN  IF candidates = {}
           THEN /\ Finished(Raise("IndexError", "list index out of range"))
                /\ UNCHANGED calls
           ELSE \E selected_child \in candidates :
                   /\ calls' = Append(calls, CallFindById(selected_child))
                   /\ IF selected_child \in ChildIds(connection)
                      THEN Finished(Return(Session(selected_child)))
                      ELSE Finished(ComError(CallFindById(selected_child)))
    /\ UNCHANGED <<req, local>>
    /\ UNCHANGED <<locatorVars, txnVars, clientVars>>

\* The number the application gives the next session of a connection.
FreeNumber(c) == CHOOSE n \in 0..(MaxSessions - 1) :
                     /\ SessionId(c, n) \notin ChildIds(c)
                     /\ \A m \in 0..(n - 1) : SessionId(c, m) \in ChildIds(c)

AddSession(c) ==
    connections' = [connections EXCEPT ![c].Children = Append(@, SessionId(c, FreeNumber(c)))]

\* The application carries out a createSession request.
AppCreatesSession ==
    \E c \in pending :
        /\ Len(connections[c].Children) < MaxSessions
        /\ AddSession(c)
        /\ pending' = pending \ {c}
        /\ UNCHANGED <<connection, now, engineVars, pc, req, outcome, calls, local>>
        /\ UNCHANGED <<locatorVars, txnVars>>

\* The user opens another session by hand.
UserOpensSession ==
    \E c \in DOMAIN connections :
        /\ Len(connections[c].Children) < MaxSessions
        /\ AddSession(c)
        /\ UNCHANGED <<connection, pending, now, engineVars, pc, req, outcome, calls, local>>
        /\ UNCHANGED <<locatorVars, txnVars>>

\* The user closes the session opened last, unless it is the connection's first.
UserClosesSession ==
    \E c \in DOMAIN connections :
        /\ Len(connections[c].Children) > 1
        /\ connections' = [connections EXCEPT ![c].Children = SubSeq(@, 1, Len(@) - 1)]
        /\ UNCHANGED <<connection, pending, now, engineVars, pc, req, outcome, calls, local>>
        /\ UNCHANGED <<locatorVars, txnVars>>

Tick ==
    /\ now + TickStep <= MaxTime
    /\ now' = now + TickStep
    /\ UNCHANGED <<connections, connection, pending, engineVars, pc, req, outcome, calls, local>>
    /\ UNCHANGED <<locatorVars, txnVars>>

InitialConnections ==
    {<<>>} \cup {<<[Description |-> d, Children |-> <<SessionId(1, 0)>>]>> : d \in Servers}

InitClient ==
    /\ tree = TableTree
    /\ text = InitialText
    /\ readonly = {}
    /\ table = NoTable
    /\ okcd = ""
    /\ openTxn = "none"
    /\ alive = TRUE
    /\ history = <<>>
    /\ local = NoLocal
    /\ Attached
    /\ connections \in InitialConnections
    /\ connection = 0
    /\ pending = {}
    /\ now = 0
    /\ pc = "idle"
    /\ req = NoReq
    /\ outcome = NoOutcome
    /\ calls = <<>>

CallNewSession == \E server \in Servers : NewSession(server)

NextClient ==
    \/ CallNewSession
    \/ SnapshotBefore
    \/ CreateSession
    \/ FirstPoll
    \/ ReadClock
    \/ Poll
    \/ Select
    \/ AppCreatesSession
    \/ UserOpensSession
    \/ UserClosesSession
    \/ Tick

SpecClient == InitClient /\ [][NextClient]_vars

NewSessionDone == pc = "done" /\ req.op = "new_session"

\* new_session went the way of an additional session: createSession was called.
AdditionalSessionDone == NewSessionDone /\ local.created

SessionAcquisitionTimeout == Raise("IndexError", "list index out of range")

\* C4: when new_session creates an additional session and a poll shows new
\* identifiers, the session it returns is resolved from an identifier of
\* (after - before), never from one of the 'before' snapshot, whatever sessions
\* the application opened or closed meanwhile; nothing but a failure to resolve
\* that identifier takes the place of the session.
C4_ReturnsNewSession ==
    AdditionalSessionDone =>
        LET new == local.after \ local.before
        IN  /\ Returned(outcome) =>
                   /\ outcome.value.session \in new
                   /\ outcome.value.session \notin local.before
            /\ new # {} =>
                   \E id \in new : \/ outcome = Return(Session(id))
                                   \/ outcome = ComError(CallFindById(id))

C4_Witness ==
    /\ AdditionalSessionDone
    /\ local.before = {SessionId(1, 0)}
    /\ local.after = {SessionId(1, 0), SessionId(1, 1), SessionId(1, 2)}
    /\ outcome = Return(Session(SessionId(1, 2)))

\* C5: when the poll loop ends without a new session identifier, which it does
\* only once 20 seconds have passed on the clock it reads, new_session fails
\* (list(after - before)[0] raises IndexError) and returns no Session; that
\* failure arises in no other case.
C5_TimeoutFails ==
    AdditionalSessionDone =>
        /\ (local.after \ local.before) = {} =>
               /\ outcome = SessionAcquisitionTimeout
               /\ local.current - local.start >= PollTimeout
        /\ outcome = SessionAcquisitionTimeout => (local.after \ local.before) = {}

C5_Witness ==
    /\ AdditionalSessionDone
    /\ local.after = local.before
    /\ local.start = 0
    /\ local.current = PollTimeout
    /\ outcome = SessionAcquisitionTimeout

\* The running program takes its next step, and the wall clock goes on.
SpecClientFair ==
    /\ SpecClient
    /\ WF_vars(SnapshotBefore)
    /\ WF_vars(CreateSession)
    /\ WF_vars(FirstPoll)
    /\ WF_vars(ReadClock)
    /\ WF_vars(Poll)
    /\ WF_vars(Select)
    /\ WF_vars(Tick)

\* The loop of lines 84-86 is running.
InPollLoop == pc \in {"clock", "poll"}

\* The clock of the model reaches the loop's deadline.
DeadlineInReach == local.start + PollTimeout <= MaxTime

\* C16: the session-discovery loop of new_session always ends.  It goes round
\* again only while the last poll showed nothing new and the last clock reading
\* was less than 20 seconds after the start, so no poll follows one that shows
\* a new identifier, and a loop that is running comes to its end (the selection,
\* then new_session's return or failure) whether or not a session ever appears.
C16_PollLoopTerminates ==
    /\ [](InPollLoop => (local.after \ local.before) = {})
    /\ [](pc = "clock" => local.current - local.start < PollTimeout)
    /\ [](pc = "select" =>
             \/ (local.after \ local.before) # {}
             \/ local.current - local.start >= PollTimeout)
    /\ (InPollLoop /\ DeadlineInReach) ~> (pc = "done")

\* The loop ran into its deadline: it was left 20 seconds after its start with
\* nothing new in sight.
C16_Witness ==
    /\ pc = "select"
    /\ local.after = local.before
    /\ local.start = TickStep
    /\ local.current = TickStep + PollTimeout

IsOpenConnection(c) == c.op = "OpenConnection"
OpenConnectionCalls == SelectSeq(calls, IsOpenConnection)

\* The connections whose Description is the server id.
MatchingConnections(server) ==
    {i \in DOMAIN connections : connections[i].Description = server}

\* The client holds a connection to the server.
Holds(server) == connection # 0 /\ connections[connection].Description = server

\* What a call of new_session(server) does about the connection.
ConnectionChoice(server) ==
    IF Holds(server)
    THEN /\ UNCHANGED <<connections, connection>>
         /\ OpenConnectionCalls' = <<>>
    ELSE IF MatchingConnections(server) # {}
    THEN /\ UNCHANGED connections
         /\ connection' \in MatchingConnections(server)
         /\ OpenConnectionCalls' = <<>>
    ELSE /\ OpenConnectionCalls' = <<CallOpenConnection(server)>>
         /\ \/ /\ Raised(outcome')
               /\ UNCHANGED <<connections, connection>>
            \/ /\ Len(connections') = Len(connections) + 1
               /\ SubSeq(connections', 1, Len(connections)) = connections
               /\ connections'[Len(connections')].Description = server
               /\ connection' = Len(connections')

\* C12: a new_session(server) of a client that holds no connection to the
\* server attaches to an existing connection exactly when one has the server id
\* as its Description, and asks the application for a new connection exactly
\* when none has; no step of a call but its first touches the connections'
\* number, and a call asks for at most one connection.
C12_ReuseOrOpen ==
    /\ [][/\ \A server \in Servers : NewSession(server) => ConnectionChoice(server)
          /\ (\A server \in Servers : ~NewSession(server)) =>
                 /\ Len(connections') = Len(connections)
                 /\ connection' = connection
                 /\ OpenConnectionCalls' = OpenConnectionCalls]_vars
    /\ [](Len(OpenConnectionCalls) <= 1)

\* The client, holding the connection to S2 it opened, was asked for S1 and
\* took the connection to S1 that was there before.
C12_Witness ==
    /\ req = [op |-> "new_session", sap_server |-> "S1"]
    /\ calls = <<>>
    /\ Len(connections) = 2
    /\ connections[1].Description = "S1"
    /\ connections[2].Description = "S2"
    /\ connection = 1

IsCreateSession(c) == c.op = "createSession"
CreateSessionCalls == SelectSeq(calls, IsCreateSession)

\* The first session of the connection the client holds.
MasterSession == SessionId(connection, 0)

\* What a call of new_session(server) sets out to do: on a connection that was
\* there it goes on to create a session; after opening one it is over at once.
SessionChoice(server) ==
    IF MatchingConnections(server) # {}
    THEN /\ pc' = "before"
         /\ calls' = <<>>
         /\ MasterSession' = Head(connections[connection'].Children)
    ELSE /\ pc' = "done"
         /\ calls' = <<CallOpenConnection(server)>>
         /\ \/ Raised(outcome') /\ UNCHANGED connections
            \/ /\ Len(connections') = Len(connections) + 1
               /\ outcome' = Return(Session(Head(connections'[connection'].Children)))
               /\ outcome' = Return(Session(MasterSession'))

\* C20: new_session asks for an additional session, by one createSession on
\* the master session, exactly when the connection it uses was there before
\* the call (held by the client with the server's description, or found among
\* the application's connections); when it had to open the connection it
\* returns that connection's first session, creates none and does not poll.
C20_CreatesSessionOnExistingConnection ==
    /\ [][\A server \in Servers : NewSession(server) => SessionChoice(server)]_vars
    /\ [](req.op = "new_session" =>
             /\ Len(OpenConnectionCalls) + Len(CreateSessionCalls) <= 1
             /\ pc \in {"before", "create"} => calls = <<>>
             /\ pc \in {"first_poll", "clock", "poll", "select"} =>
                    calls = <<CallCreateSession(MasterSession)>>
             /\ (pc = "done" /\ OpenConnectionCalls = <<>>) =>
                    CreateSessionCalls = <<CallCreateSession(MasterSession)>>
             /\ OpenConnectionCalls # <<>> =>
                    /\ pc = "done"
                    /\ local = NewSessionLocals(local.master)
                    /\ Returned(outcome) => outcome = Return(Session(MasterSession)))

\* No connection was there: new_session("S1") opened one and returned its
\* first session.
C20_Witness ==
    /\ NewSessionDone
    /\ req.sap_server = "S1"
    /\ calls = <<CallOpenConnection("S1")>>
    /\ Len(connections) = 1
    /\ outcome = Return(Session(SessionId(1, 0)))
    /\ pending = {}

\* The connection to S2 was found among the application's: a session was
\* created on it and returned.
AdditionalSessionOnFoundConnection ==
    /\ NewSessionDone
    /\ req.sap_server = "S2"
    /\ Len(connections) = 1
    /\ calls = <<CallCreateSession(SessionId(1, 0)), CallFindById(SessionId(1, 1))>>
    /\ outcome = Return(Session(SessionId(1, 1)))

----------------------------------------------------------------------------
(* A client's life: Client(sap_path), calls of new_session, and one session *)
(* used in a `with` block.  Nothing in Client ends the process or closes a  *)
(* connection; Session.close is all the release there is.                   *)

CallPopen == [op |-> "Popen"]
CallGetObject == [op |-> "GetObject", name |-> "SAPGUI"]
CallGetScriptingEngine == [op |-> "GetScriptingEngine"]
CallClose(id) == [op |-> "close", id |-> id, window |-> MainWindow]

\* What win32com hands back: a CDispatch object, something else, or an error.
ComResults == {"CDispatch", "other", "error"}

\* Client.__init__ raised: no Client object reaches the caller.
ConstructionFails(result) ==
    /\ pc' = "no client"
    /\ outcome' = result

\* self.process = subprocess.Popen(sap_path)
Popen ==
    /\ pc = "new"
    /\ req' = [op |-> "Client"]
    /\ calls' = <<CallPopen>>
    /\ \E started \in BOOLEAN :
           IF started
           THEN /\ process' = "running"
                /\ pc' = "get_object"
                /\ UNCHANGED outcome
           ELSE /\ ConstructionFails(Raise("OSError", "Popen"))
                /\ UNCHANGED process
    /\ UNCHANGED <<connections, connection, pending, now, application, local>>
    /\ UNCHANGED <<locatorVars, txnVars>>

\* self.sap_gui_auto = win32com.client.GetObject('SAPGUI') and its isinstance test
GetObject ==
    /\ pc = "get_object"
    /\ calls' = Append(calls, CallGetObject)
    /\ \E result \in ComResults :
           CASE result = "CDispatch" -> pc' = "get_engine" /\ UNCHANGED outcome
             [] result = "other" -> ConstructionFails(Raise("ValueError", "SAP GUI was not found!"))
             [] result = "error" -> ConstructionFails(ComError(CallGetObject))
    /\ UNCHANGED <<req, local>>
    /\ UNCHANGED <<locatorVars, txnVars, clientVars>>

\* self.application = self.sap_gui_auto.GetScriptingEngine and its isinstance test
GetScriptingEngine ==
    /\ pc = "get_engine"
    /\ calls' = Append(calls, CallGetScriptingEngine)
    /\ \E result \in ComResults :
           CASE result = "CDispatch" ->
                    /\ application' = "engine"
                    /\ pc' = "idle"
                    /\ outcome' = Return("Client")
             [] result = "other" ->
                    /\ application' = "other"
                    /\ ConstructionFails(Raise("ValueError", "SAP Scripting Engine was not found!"))
             [] result = "error" ->
                    /\ UNCHANGED application
                    /\ ConstructionFails(ComError(CallGetScriptingEngine))
    /\ UNCHANGED <<req, local>>
    /\ UNCHANGED <<connections, connection, pending, now, process>>
    /\ UNCHANGED <<locatorVars, txnVars>>

\* The connection a session belongs to.
ConnectionOf(id) == id[1]

\* with client.new_session(server) as ses:   (__enter__ returns the Session)
EnterBlock ==
    /\ pc = "done"
    /\ req.op = "new_session"
    /\ Returned(outcome)
    /\ pc' = "body"
    /\ req' = [op |-> "with", ses |-> outcome.value.session]
    /\ local' = [phase |-> "with", raised |-> FALSE]
    /\ outcome' = NoOutcome
    /\ calls' = <<>>
    /\ UNCHANGED <<locatorVars, txnVars, clientVars>>

\* The block's body runs to its end or raises.
Body ==
    /\ pc = "body"
    /\ \E raised \in BOOLEAN : local' = [local EXCEPT !.raised = raised]
    /\ pc' = "exit"
    /\ UNCHANGED <<req, outcome, calls>>
    /\ UNCHANGED <<locatorVars, txnVars, clientVars>>

\* __exit__: self.close(), that is self.ses.findById("wnd[0]").close(); the
\* body's exception, if any, goes on to the caller afterwards.
ExitBlock ==
    /\ pc = "exit"
    /\ pc' = "exited"
    /\ LET c == ConnectionOf(req.ses)
           IsOther(id) == id # req.ses
       IN  IF req.ses \in ChildIds(c)
           THEN /\ calls' = calls \o <<CallFindById(MainWindow), CallClose(req.ses)>>
                /\ connections' = [connections EXCEPT ![c].Children = SelectSeq(@, IsOther)]
                /\ outcome' = IF local.raised THEN Raise("Exception", "body")
                               ELSE Return("None")
           ELSE /\ calls' = Append(calls, CallFindById(MainWindow))
                /\ UNCHANGED connections
                /\ outcome' = ComError(CallFindById(MainWindow))
    /\ UNCHANGED <<connection, pending, now, engineVars, req, local>>
    /\ UNCHANGED <<locatorVars, txnVars>>

InitLifecycle ==
    /\ tree = TableTree
    /\ text = InitialText
    /\ readonly = {}
    /\ table = NoTable
    /\ okcd = ""
    /\ openTxn = "none"
    /\ alive = TRUE
    /\ history = <<>>
    /\ local = NoLocal
    /\ process = "none"
    /\ application = "None"
    /\ connections \in InitialConnections
    /\ connection = 0
    /\ pending = {}
    /\ now = 0
    /\ pc = "new"
    /\ req = NoReq
    /\ outcome = NoOutcome
    /\ calls = <<>>

NextLifecycle ==
    \/ Popen
    \/ GetObject
    \/ GetScriptingEngine
    \/ CallNewSession
    \/ SnapshotBefore
    \/ CreateSession
    \/ FirstPoll
    \/ ReadClock
    \/ Poll
    \/ Select
    \/ AppCreatesSession
    \/ UserOpensSession
    \/ UserClosesSession
    \/ Tick
    \/ EnterBlock
    \/ Body
    \/ ExitBlock

SpecLifecycle == InitLifecycle /\ [][NextLifecycle]_vars

IsClose(c) == c.op = "close"
CloseCalls == SelectSeq(calls, IsClose)

BlockExited == pc = "exited"

\* The block's session is closed by one call of close, or was gone already
\* when close looked for its window.
ClosedOnce ==
    \/ CloseCalls = <<CallClose(req.ses)>>
    \/ CloseCalls = <<>> /\ outcome = ComError(CallFindById(MainWindow))

\* C13: whatever was acquired is released whichever step failed: a Client
\* whose construction fails leaves no process it launched running, and a
\* Session used in a `with` block has its window closed exactly once when the
\* block exits, whether the body ran to its end or raised.
C13_AcquiredResourcesReleased ==
    /\ pc = "no client" => process # "running"
    /\ BlockExited => ClosedOnce

\* What the code does: the `with` block closes its session once, on both ways
\* out, and the launched process runs on whatever happens.
WithBlockClosesOnce ==
    /\ BlockExited => ClosedOnce
    /\ (BlockExited /\ Len(CloseCalls) = 1) =>
           outcome = IF local.raised THEN Raise("Exception", "body") ELSE Return("None")
    /\ pc \notin {"new", "no client"} => process = "running"

ProcessLeftRunning ==
    /\ pc = "no client"
    /\ process = "running"
    /\ outcome = Raise("ValueError", "SAP GUI was not found!")

====
